---------------------------- MODULE Spec2Model ----------------------------
(***************************************************************************)
(* Funding-rate history fetchers of exchange_funding: the pagination loops *)
(* fetch_binance_funding, fetch_bybit_funding_v5 and                       *)
(* fetch_hyper_funding_for_symbol, the exchange server they talk to, the   *)
(* symbol-list readers, and the main of each script, which fetches every   *)
(* symbol in turn and writes one CSV file per symbol.                      *)
(***************************************************************************)
EXTENDS Integers, Sequences, FiniteSets, TLC

(***************************************************************************)
(* State of one run of a script.                                           *)
(***************************************************************************)
VARIABLES
    exchange,   \* which fetcher runs
    files,      \* the symbol-list files the script's reader names
    syms,       \* main's syms: the symbols read from them
    index,      \* the position in syms of the symbol being fetched
    all_rows,   \* main's all_rows
    server,     \* the funding times of the records the exchange holds for that
                \* symbol, ascending
    start_ms,   \* the fetch window, as main passes it to the fetcher
    end_ms,
    pc,         \* "start": main has not read the symbols yet; "main": main of
                \* fetch_funding_rates.py is between two calls of a fetcher;
                \* "loop": at the top of the while loop; "sleep": in time.sleep;
                \* "returned": the fetcher has returned to main; "raised": an
                \* exception left the fetcher; "done": main has written its files
    cursor,     \* cur_start (Binance, Hyperliquid) or cur_end (Bybit)
    results,    \* the fetcher's results list: what it returns once pc = "returned"
    sent,       \* the number of requests sent so far for that symbol
    request,    \* the last request sent: [startTime, endTime]
    response,   \* the response to it
    full,       \* the number of responses so far that held `limit` entries
    faults,     \* the number of responses so far that were not the honest page
    csv,        \* the files written by save_rows_to_csv, each [path, rows]
    only_binance,   \* fetch_funding_rates.py: args.only_binance
    syms_bybit      \* fetch_funding_rates.py: main's syms_bybit (syms is its
                    \* syms_binance until the Bybit loop starts)

vars == <<exchange, files, syms, index, all_rows, server, start_ms, end_ms, pc,
          cursor, results, sent, request, response, full, faults, csv,
          only_binance, syms_bybit>>

\* what main holds beside the fetch of one symbol
mainVars == <<files, syms, index, all_rows, only_binance, syms_bybit>>

\* the symbol being fetched
symbol == syms[index]

(***************************************************************************)
(* Millisecond timestamps.  Python integers are unbounded and the program  *)
(* compares timestamps with 10^12, which no TLC integer holds.  A time is  *)
(* the pair <<hi, lo>> of value hi * 10^6 + lo with 0 <= lo < 10^6 (hi may *)
(* be negative), so every program constant keeps its real value.           *)
(***************************************************************************)
Limb == 1000 * 1000

Ms(hi, lo) == <<hi, lo>>

MsLt(a, b) == a[1] < b[1] \/ (a[1] = b[1] /\ a[2] < b[2])

MsLe(a, b) == a = b \/ MsLt(a, b)

MsMin(a, b) == IF MsLe(a, b) THEN a ELSE b

MsAdd(a, b) == <<a[1] + b[1] + ((a[2] + b[2]) \div Limb), (a[2] + b[2]) % Limb>>

MsSucc(a) == MsAdd(a, <<0, 1>>)

MsPred(a) == IF a[2] = 0 THEN <<a[1] - 1, Limb - 1>> ELSE <<a[1], a[2] - 1>>

\* a * k for 0 <= k; the low limb is multiplied in two halves so that no
\* intermediate product leaves the range of TLC's integers
MsTimes(a, k) ==
    LET l1 == a[2] \div 1000
        l0 == a[2] % 1000
        m  == ((l1 * k) % 1000) * 1000 + l0 * k
    IN  <<a[1] * k + ((l1 * k) \div 1000) + (m \div Limb), m % Limb>>

MsZero == <<0, 0>>

(***************************************************************************)
(* JSON / Python values, tagged.                                           *)
(*   none    None (JSON null, or a key that is absent for dict.get)        *)
(*   int     an integer, v its value                                       *)
(*   numstr  a string of decimal digits, v the integer it spells           *)
(*   iso     an ISO-8601 string, v the instant it denotes                  *)
(*   str     any other string, s its text ("" is the empty string)         *)
(*   list    a list, l its elements                                        *)
(*   dict    an object, d the function from its keys to their values       *)
(***************************************************************************)
None == [tag |-> "none"]

PyInt(v) == [tag |-> "int", v |-> v]

NumStr(v) == [tag |-> "numstr", v |-> v]

IsoStr(v) == [tag |-> "iso", v |-> v]

PyStr(s) == [tag |-> "str", s |-> s]

PyList(l) == [tag |-> "list", l |-> l]

PyDict(d) == [tag |-> "dict", d |-> d]

\* Python truthiness, as used by `a or b` and `not lst`
Truthy(x) ==
    CASE x.tag = "none" -> FALSE
      [] x.tag = "int"  -> x.v # MsZero
      [] x.tag = "str"  -> x.s # ""
      [] x.tag = "list" -> Len(x.l) > 0
      [] x.tag = "dict" -> DOMAIN x.d # {}
      [] OTHER          -> TRUE

\* `a or b`
PyOr(a, b) == IF Truthy(a) THEN a ELSE b

\* int(x) succeeds on integers and on strings of digits; anything else raises
IntOk(x) == x.tag \in {"int", "numstr"}

IntOf(x) == x.v

\* datetime.fromisoformat(str(x).replace("Z", "+00:00")) succeeds
IsoOk(x) == x.tag = "iso"

\* hash(x) succeeds: lists and dicts are unhashable
Hashable(x) == x.tag \notin {"list", "dict"}

\* len(x) succeeds
Sized(x) == x.tag \in {"numstr", "iso", "str", "list", "dict"}

IsList(x) == x.tag = "list"

IsDict(x) == x.tag = "dict"

\* item.get(k) on a dict
Get(item, k) == IF k \in DOMAIN item.d THEN item.d[k] ELSE None


\* 253402300799999 ms, the last instant of the year 9999: the largest value
\* datetime.utcfromtimestamp / datetime.fromtimestamp can turn into a date
MaxDateMs == Ms(253402300, 799999)

\* iso_from_ms(ms) returns (it raises ValueError beyond the year 9999)
IsoFromMsOk(ms) == MsLe(ms, MaxDateMs)

\* iso_from_ms(ms): the text of the instant ms
iso_from_ms(ms) == IsoStr(ms)

\* `ft_i < 1e12`
BelowMsThreshold(ft_i) == ft_i[1] < Limb

\* a parsed time that is kept as it is
NormalizeTimeNever(ft_i) == ft_i

\* `if ft_i < 1e12: ft_i = ft_i * 1000`
NormalizeTime(ft_i) == IF BelowMsThreshold(ft_i) THEN MsTimes(ft_i, 1000) ELSE ft_i

(***************************************************************************)
(* The three exchanges and the single symbol of one fetch.                 *)
(***************************************************************************)
Exchanges == {"binance", "bybit", "hyperliquid"}

\* a str is the sequence of its characters
Symbol == <<"B", "T", "C", "U", "S", "D", "T">>

BinanceLimit == 1000

BybitLimit == 200

\* window_ms = 30 * 24 * 3600 * 1000
WindowMs == MsTimes(Ms(0, 1000), 30 * 24 * 3600)

\* 2024-12-16 00:00:00 (UTC), the fixed start of every run's window
Epoch == Ms(1734307, 200000)

(***************************************************************************)
(* The exchange server holds the records at some positions 0, 1, ...;      *)
(* TimeOf gives the funding time of a position.  Binance and               *)
(* Bybit records lie 8 hours apart from Epoch on; Hyperliquid positions    *)
(* sit one millisecond before, on and one millisecond after the points     *)
(* Epoch + k * WindowMs, where the 30-day windows of the fetcher meet.     *)
(***************************************************************************)
FundingInterval == Ms(28, 800000)

HyperOffset(i) ==
    CASE i % 3 = 0 -> MsPred(MsTimes(WindowMs, i \div 3))
      [] i % 3 = 1 -> MsTimes(WindowMs, i \div 3)
      [] OTHER     -> MsSucc(MsTimes(WindowMs, i \div 3))

TimeOf(exch, i) ==
    IF exch = "hyperliquid"
    THEN MsAdd(Epoch, HyperOffset(i))
    ELSE MsAdd(Epoch, MsTimes(FundingInterval, i))

HonestRate == PyStr("0.0001")

\* the JSON entry an exchange sends for the record at funding time t
HonestItem(exch, t) ==
    CASE exch = "binance" ->
           PyDict([symbol |-> PyStr(Symbol), fundingTime |-> PyInt(t),
                   fundingRate |-> HonestRate])
      [] exch = "bybit" ->
           PyDict([symbol |-> PyStr(Symbol), fundingRateTimestamp |-> NumStr(t),
                   fundingRate |-> HonestRate])
      [] OTHER ->
           PyDict([coin |-> PyStr("BTC"), time |-> PyInt(t),
                   fundingRate |-> HonestRate])

(***************************************************************************)
(* One entry of a page, as each fetcher's `for item in ...` body treats    *)
(* it: it appends a row, skips the entry (`continue`), or raises.          *)
(***************************************************************************)
Row(exch, ft, fr) ==
    [exchange |-> exch, symbol |-> symbol, funding_time_ms |-> ft,
     funding_time_iso |-> iso_from_ms(ft), funding_rate |-> fr]

Appends(row) == [kind |-> "row", row |-> row]

Skips == [kind |-> "skip"]

Raises == [kind |-> "raise"]

\* the row for a parsed time ft_i: iso_from_ms(ft_i) is evaluated while the
\* row is built and may raise
RowOrRaise(exch, ft_i, fr) ==
    IF IsoFromMsOk(ft_i) THEN Appends(Row(exch, ft_i, fr)) ELSE Raises

\* int(dt.timestamp() * 1000) of the parsed ISO string
IsoToMs(x) == x.v

BinanceItem(item) ==
    IF ~IsDict(item) THEN Raises
    ELSE LET ft == Get(item, "fundingTime")
             fr == Get(item, "fundingRate")
         IN  IF IntOk(ft) THEN RowOrRaise("binance", IntOf(ft), fr) ELSE Raises

BybitItem(item) ==
    IF ~IsDict(item) THEN Raises
    ELSE LET fr == PyOr(PyOr(Get(item, "fundingRate"), Get(item, "funding_rate")),
                        Get(item, "funding"))
             ft == PyOr(PyOr(PyOr(Get(item, "fundingRateTimestamp"),
                                  Get(item, "funding_time")),
                             Get(item, "timestamp")),
                        Get(item, "time"))
         IN  CASE ft = None -> Skips
               [] ft # None /\ IntOk(ft) ->
                    RowOrRaise("bybit", NormalizeTime(IntOf(ft)), fr)
               [] ft # None /\ ~IntOk(ft) /\ IsoOk(ft) ->
                    RowOrRaise("bybit", IsoToMs(ft), fr)
               [] OTHER -> Skips

HyperItem(item) ==
    IF ~IsDict(item) THEN Raises
    ELSE LET ft == PyOr(PyOr(Get(item, "time"), Get(item, "timestamp")),
                        Get(item, "t"))
             fr == PyOr(PyOr(PyOr(Get(item, "fundingRate"),
                                  Get(item, "funding_rate")),
                             Get(item, "rate")),
                        Get(item, "funding"))
         IN  CASE ft = None -> Skips
               [] ft # None /\ IntOk(ft) ->
                    RowOrRaise("hyperliquid", NormalizeTime(IntOf(ft)), fr)
               [] OTHER -> Skips

ItemOutcome(exch, item) ==
    CASE exch = "binance" -> BinanceItem(item)
      [] exch = "bybit"   -> BybitItem(item)
      [] OTHER            -> HyperItem(item)

\* the outcomes of the entries of a page, in order
Outcomes(exch, items) == [i \in 1..Len(items) |-> ItemOutcome(exch, items[i])]

\* the for loop is left by an exception at some entry
LoopRaises(outs) == \E i \in 1..Len(outs) : outs[i].kind = "raise"

\* the number of entries the for loop gets through before it raises
Processed(outs) ==
    IF LoopRaises(outs)
    THEN (CHOOSE i \in 1..Len(outs) :
             /\ outs[i].kind = "raise"
             /\ \A j \in 1..(i - 1) : outs[j].kind # "raise") - 1
    ELSE Len(outs)

IsRowOutcome(o) == o.kind = "row"

\* the rows the for loop appends to results
Appended(outs) ==
    LET kept == SelectSeq(SubSeq(outs, 1, Processed(outs)), IsRowOutcome)
    IN  [i \in 1..Len(kept) |-> kept[i].row]

Last(s) == s[Len(s)]

(***************************************************************************)
(* One pass through the body of each fetcher's while loop, given the       *)
(* response to its request: the new results and cursor, and whether the    *)
(* pass ends in `break` (also through `except Exception`) or reaches       *)
(* time.sleep and loops.  A response is [ok, body]: ok is FALSE when       *)
(* requests.get/post, raise_for_status or r.json() raised.                 *)
(***************************************************************************)
Break(res, cur) == [results |-> res, cursor |-> cur, next |-> "break"]

\* a loop that goes back to its top without time.sleep
ContinueAtOnce(res, cur) == [results |-> res, cursor |-> cur, next |-> "loop"]

Continue(res, cur) == [results |-> res, cursor |-> cur, next |-> "sleep"]

\* a loop that a short page does not end, only an empty one
BinanceShortPageNever(data) == FALSE

\* `if len(data) < limit: break`
BinanceShortPage(data) == Len(data.l) < BinanceLimit

\* a cursor left on the last entry received: `cur_start = last_time`
BinanceNextStartOnLast(last_time) == last_time

\* `cur_start = last_time + 1`
BinanceNextStart(last_time) == MsSucc(last_time)

BinanceIteration(res, cur_start, resp) ==
    IF ~resp.ok THEN Break(res, cur_start)
    ELSE LET data == resp.body IN
         IF ~IsList(data) \/ Len(data.l) = 0 THEN Break(res, cur_start)
         ELSE LET outs == Outcomes("binance", data.l)
                  res2 == res \o Appended(outs)
              IN  IF LoopRaises(outs) THEN Break(res2, cur_start)
                  ELSE IF BinanceShortPage(data) THEN Break(res2, cur_start)
                  ELSE Continue(res2,
                                BinanceNextStart(IntOf(Get(Last(data.l), "fundingTime"))))

BybitList(j) ==
    LET result_obj == IF IsDict(j) THEN Get(j, "result") ELSE None
    IN  IF IsDict(result_obj) THEN PyOr(Get(result_obj, "list"), PyList(<<>>))
        ELSE IF IsList(result_obj) THEN result_obj
        ELSE PyList(<<>>)

\* a loop that a short page does not end, only an empty one
BybitShortPageNever(lst) == FALSE

\* `if len(lst) < limit: break`
BybitShortPage(lst) == Len(lst.l) < BybitLimit

\* a cursor left on the last entry received: `cur_end = last_time`
BybitNextEndOnLast(last_time) == last_time

\* `cur_end = last_time - 1`
BybitNextEnd(last_time) == MsPred(last_time)

BybitIteration(res, cur_end, resp) ==
    IF ~resp.ok THEN Break(res, cur_end)
    ELSE LET lst == BybitList(resp.body) IN
         IF ~Truthy(lst) THEN Break(res, cur_end)
         ELSE IF ~IsList(lst) THEN Break(res, cur_end)
         ELSE LET outs == Outcomes("bybit", lst.l)
                  res2 == res \o Appended(outs)
                  last == Get(Last(lst.l), "fundingRateTimestamp")
              IN  IF LoopRaises(outs) THEN Break(res2, cur_end)
                  ELSE IF BybitShortPage(lst) THEN Break(res2, cur_end)
                  ELSE IF ~IntOk(last) THEN Break(res2, cur_end)
                  ELSE Continue(res2, BybitNextEnd(IntOf(last)))

\* cur_end = min(end_ms, cur_start + window_ms - 1)
HyperWindowEnd(cur_start, end) == MsMin(end, MsPred(MsAdd(cur_start, WindowMs)))

\* a cursor left on the end of the window: `cur_start = cur_end`
HyperNextWindowOnEnd(cur_end) == cur_end

\* `cur_start = cur_end + 1`: on to the next window
HyperNextWindow(cur_end) == MsSucc(cur_end)

\* a cursor left on the last entry received: `cur_start = last_time`
HyperNextStartOnLast(last_time) == last_time

\* `cur_start = last_time + 1`
HyperNextStart(last_time) == MsSucc(last_time)

HyperIteration(res, cur_start, end, resp) ==
    IF ~resp.ok THEN Break(res, cur_start)
    ELSE LET j == resp.body
             cur_end == HyperWindowEnd(cur_start, end)
         IN
         IF ~Sized(j) THEN Break(res, cur_start)
         ELSE IF ~IsList(j) \/ Len(j.l) = 0 THEN Continue(res, HyperNextWindow(cur_end))
         ELSE LET outs == Outcomes("hyperliquid", j.l)
                  res2 == res \o Appended(outs)
                  last == IF IsDict(Last(j.l))
                          THEN PyOr(PyOr(Get(Last(j.l), "time"),
                                         Get(Last(j.l), "timestamp")),
                                    Get(Last(j.l), "t"))
                          ELSE None
              IN  IF LoopRaises(outs) THEN Break(res2, cur_start)
                  ELSE IF ~IntOk(last) THEN Break(res2, cur_start)
                  ELSE Continue(res2, HyperNextStart(IntOf(last)))

(***************************************************************************)
(* What each fetcher does after its loop.  Binance and Bybit return        *)
(* results as accumulated.  Hyperliquid builds                             *)
(*   {(r['funding_time_ms'], r['funding_rate']): r for r in results}       *)
(* which raises TypeError when a funding_rate is unhashable, and returns   *)
(* the dict's values sorted (stably) by funding_time_ms.                   *)
(***************************************************************************)
DedupKey(r) == <<r.funding_time_ms, r.funding_rate>>

DedupRaises(rows) == \E i \in 1..Len(rows) : ~Hashable(rows[i].funding_rate)

\* a fetcher that returns the rows as the loop accumulated them
DedupSortKeepsAll(rows) == rows

DedupSort(rows) ==
    LET n        == Len(rows)
        firsts   == {i \in 1..n : \A j \in 1..(i - 1) : DedupKey(rows[j]) # DedupKey(rows[i])}
        value(i) == rows[CHOOSE j \in i..n :
                            /\ DedupKey(rows[j]) = DedupKey(rows[i])
                            /\ \A k \in (j + 1)..n : DedupKey(rows[k]) # DedupKey(rows[i])]
        rank(i)  == Cardinality({j \in firsts :
                        \/ MsLt(rows[j].funding_time_ms, rows[i].funding_time_ms)
                        \/ rows[j].funding_time_ms = rows[i].funding_time_ms /\ j < i}) + 1
    IN  [r \in 1..Cardinality(firsts) |-> value(CHOOSE i \in firsts : rank(i) = r)]

Reverse(s) == [i \in 1..Len(s) |-> s[Len(s) - i + 1]]

(***************************************************************************)
(* Bounds of the model.                                                    *)
(***************************************************************************)
\* the Binance server holds at most this many full pages of records, plus a
\* short one
BinanceFullPages == 1

\* the Bybit server holds at most this many full pages of records, plus a
\* short one
BybitFullPages == 3

\* at most this many responses of one fetch are delivered and are not the
\* honest page; besides them any request may fail, which ends the fetch
MaxFaults == 1

\* the Hyperliquid server sends at most this many entries per response
HyperServerCap == 2

\* the Hyperliquid server holds records at positions 0 .. HyperPositions - 1
HyperPositions == 5

(***************************************************************************)
(* The server's answers.  `srv` is the ascending sequence of the funding   *)
(* times of the records the server holds.                                  *)
(***************************************************************************)
Limit(exch) == IF exch = "binance" THEN BinanceLimit ELSE BybitLimit

\* the times held that lie in [a, b], ascending
Held(srv, a, b) ==
    LET InRange(t) == MsLe(a, t) /\ MsLe(t, b)
    IN  SelectSeq(srv, InRange)

\* the page an honest server sends for startTime = a, endTime = b: Binance the
\* oldest `limit` records ascending, Bybit the newest `limit` descending,
\* Hyperliquid the oldest HyperServerCap ascending
HonestPage(exch, srv, a, b) ==
    LET Page(held) ==
            LET n == Len(held)
                m == IF exch = "hyperliquid"
                     THEN (IF n < HyperServerCap THEN n ELSE HyperServerCap)
                     ELSE (IF n < Limit(exch) THEN n ELSE Limit(exch))
            IN  IF exch = "bybit"
                THEN [i \in 1..m |-> HonestItem(exch, held[n - i + 1])]
                ELSE [i \in 1..m |-> HonestItem(exch, held[i])]
    IN  CHOOSE page \in {Page(held) : held \in {Held(srv, a, b)}} : TRUE

\* the JSON body around a list of entries
Body(exch, items) ==
    IF exch = "bybit"
    THEN PyDict([retCode |-> PyInt(MsZero),
                 result |-> PyDict([category |-> PyStr("linear"),
                                    list |-> PyList(items)])])
    ELSE PyList(items)

\* bodies that hold no list of entries where the fetcher looks for one
OddBodies(exch) ==
    {None, PyInt(Ms(0, 429)), PyStr("Too many requests"),
     PyDict([code |-> PyInt(Ms(0, 1121)), msg |-> PyStr("Invalid symbol.")])}
    \cup (IF exch = "bybit"
          THEN {PyDict([retCode |-> PyInt(Ms(0, 10001)), result |-> None]),
                PyDict([retCode |-> PyInt(MsZero), result |-> PyDict([list |-> None])]),
                PyDict([retCode |-> PyInt(MsZero),
                        result |-> PyDict([list |-> PyStr("n/a")])]),
                PyList(<<>>)}
          ELSE {})

TimeKey(exch) ==
    CASE exch = "binance" -> "fundingTime"
      [] exch = "bybit"   -> "fundingRateTimestamp"
      [] OTHER            -> "time"

OtherTimeKey(exch) == IF exch = "hyperliquid" THEN "t" ELSE "timestamp"

OtherRateKey(exch) == IF exch = "hyperliquid" THEN "rate" ELSE "funding_rate"

With(item, k, v) ==
    PyDict([key \in DOMAIN item.d \cup {k} |-> IF key = k THEN v ELSE item.d[key]])

Without(item, k) == PyDict([key \in DOMAIN item.d \ {k} |-> item.d[key]])

\* t is a whole number of seconds
WholeSeconds(t) == t[2] % 1000 = 0

\* t \div 1000: the time t in seconds
MsToSeconds(t) == <<t[1] \div 1000, (t[1] % 1000) * 1000 + (t[2] \div 1000)>>

TamperModes ==
    {"no_time", "bad_time", "seconds", "zero_time", "iso_time", "other_time_key",
     "far_time", "not_dict", "list_rate", "zero_rate", "other_rate_key"}

\* the modes that make the fetcher skip the entry or stop at it
DroppingModes == {"no_time", "bad_time", "not_dict"}

\* an honest entry as a server with another idea of the format would send it
Tamper(exch, item, mode) ==
    LET t == IntOf(Get(item, TimeKey(exch))) IN
    CASE mode = "no_time"   -> Without(item, TimeKey(exch))
      [] mode = "bad_time"  -> With(item, TimeKey(exch), PyStr("n/a"))
      [] mode = "seconds"   -> With(item, TimeKey(exch), PyInt(MsToSeconds(t)))
      [] mode = "zero_time" -> With(item, TimeKey(exch), PyInt(MsZero))
      [] mode = "iso_time"  -> With(item, TimeKey(exch), IsoStr(t))
      [] mode = "other_time_key" ->
             With(Without(item, TimeKey(exch)), OtherTimeKey(exch), PyInt(t))
      [] mode = "far_time"  -> With(item, TimeKey(exch), PyInt(Ms(Limb - 1, Limb - 1)))
      [] mode = "not_dict"  -> PyStr("n/a")
      [] mode = "list_rate" -> With(item, "fundingRate", PyList(<<HonestRate>>))
      [] mode = "zero_rate" -> With(item, "fundingRate", PyInt(MsZero))
      [] OTHER -> With(Without(item, "fundingRate"), OtherRateKey(exch), HonestRate)

\* a server can send the time of an entry in seconds when it is a whole second
CanTamper(exch, item, mode) ==
    mode = "seconds" => WholeSeconds(IntOf(Get(item, TimeKey(exch))))

Response(how, ok, body) == [how |-> how, ok |-> ok, body |-> body]

NoResponse == Response("none", FALSE, None)

(***************************************************************************)
(* What the server may do with a request: answer the honest page; fail     *)
(* (timeout, HTTP error status, a body that is not JSON); and while faults *)
(* are left: send a body without a list; send an empty                     *)
(* list; send the honest page with its last entry tampered, or its first   *)
(* entry made one the fetcher cannot use; send the page of the fetch's     *)
(* first request again; (Bybit) send the list as `result` itself.          *)
(***************************************************************************)
Behaviour(how, at, mode, odd) == [how |-> how, at |-> at, mode |-> mode, odd |-> odd]

Behaviours(exch, faultsLeft) ==
    {Behaviour("honest", "", "", None), Behaviour("error", "", "", None)}
    \cup
    (IF faultsLeft > 0
     THEN {Behaviour(how, "", "", None) : how \in {"empty", "replay", "flat"}}
          \cup {Behaviour("odd", "", "", b2) : b2 \in OddBodies(exch)}
          \cup {Behaviour("tampered", "last", mode, None) : mode \in TamperModes}
          \cup {Behaviour("tampered", "first", mode, None) : mode \in DroppingModes}
     ELSE {})

\* the server can behave as bhv, where honest is the honest page for the
\* request and replay the honest page for the fetch's first request
CanAnswer(exch, honest, replay, bhv) ==
    CASE bhv.how = "empty"    -> honest # <<>>
      [] bhv.how = "replay"   -> replay # honest
      [] bhv.how = "flat"     -> exch = "bybit" /\ honest # <<>>
      [] bhv.how = "tampered" ->
             /\ honest # <<>>
             /\ bhv.at = "first" => Len(honest) > 1
             /\ CanTamper(exch, IF bhv.at = "first" THEN honest[1] ELSE Last(honest),
                          bhv.mode)
      [] OTHER -> TRUE

\* the response of a server that behaves as bhv
Answer(exch, honest, replay, bhv) ==
    LET p == IF bhv.at = "first" THEN 1 ELSE Len(honest) IN
    CASE bhv.how = "honest" -> Response("honest", TRUE, Body(exch, honest))
      [] bhv.how = "error"  -> Response("error", FALSE, None)
      [] bhv.how = "odd"    -> Response("odd", TRUE, bhv.odd)
      [] bhv.how = "empty"  -> Response("empty", TRUE, Body(exch, <<>>))
      [] bhv.how = "flat"   -> Response("flat", TRUE, PyDict([result |-> PyList(honest)]))
      [] bhv.how = "replay" -> Response("replay", TRUE, Body(exch, replay))
      [] OTHER ->
             Response("tampered", TRUE,
                      Body(exch, [honest EXCEPT ![p] = Tamper(exch, honest[p], bhv.mode)]))

\* the responses the server may give to the request for [a, b] of a fetch
\* over [first, last]
Responses(exch, srv, a, b, first, last, faultsLeft) ==
    UNION {{Answer(exch, honest, replay, bhv) :
              bhv \in {x \in Behaviours(exch, faultsLeft) :
                          CanAnswer(exch, honest, replay, x)}} :
             honest \in {HonestPage(exch, srv, a, b)},
             replay \in {HonestPage(exch, srv, first, last)}}

(***************************************************************************)
(* The symbol-list readers and sanitize_filename.  A str is the sequence   *)
(* of its characters, a file is [isfile, lines]: whether the path is a     *)
(* file, and its lines without their line ends.                            *)
(***************************************************************************)
Tab == "\t"

\* the backtick character, which a TLA+ string cannot hold
Backtick == "backtick"

\* the code point of a character
Ord(c) ==
    CASE c = Tab -> 9
      [] c = "\n" -> 10
      [] c = "\r" -> 13
      [] c = " " -> 32
      [] c = "-" -> 45
      [] c = "/" -> 47
      [] c = "A" -> 65
      [] c = "B" -> 66
      [] c = "C" -> 67
      [] c = "D" -> 68
      [] c = "S" -> 83
      [] c = "T" -> 84
      [] c = "U" -> 85
      [] c = "_" -> 95
      [] OTHER   -> 96

\* str.isspace and str.isalnum of a character
IsSpace(c) == c \in {Tab, "\n", "\r", " "}

IsAlnum(c) == Ord(c) \in 65..90

\* the characters str.strip() removes, and those s.strip('`\n\r ') removes
Whitespace == {Tab, "\n", "\r", " "}

BackticksAndSpaces == {Backtick, "\n", "\r", " "}

\* s.strip(chars): s without its leading and trailing characters of chars
Strip(s, chars) ==
    LET kept == {i \in 1..Len(s) : s[i] \notin chars}
    IN  IF kept = {} THEN <<>>
        ELSE SubSeq(s, CHOOSE i \in kept : \A j \in kept : i <= j,
                       CHOOSE i \in kept : \A j \in kept : j <= i)

\* a < b for two str
LexLt(a, b) ==
    \E k \in 1..(Len(a) + 1) :
        /\ \A j \in 1..(k - 1) : j <= Len(b) /\ a[j] = b[j]
        /\ \/ k = Len(a) + 1 /\ k <= Len(b)
           \/ k <= Len(a) /\ k <= Len(b) /\ Ord(a[k]) < Ord(b[k])

NoFile == [isfile |-> FALSE, lines |-> <<>>]

File(lines) == [isfile |-> TRUE, lines |-> lines]

\* the lines `for fn in filenames: ... for line in f` goes through
RECURSIVE ReadLines(_)
ReadLines(fs) ==
    IF fs = <<>> THEN <<>>
    ELSE (IF Head(fs).isfile THEN Head(fs).lines ELSE <<>>) \o ReadLines(Tail(fs))

\* `if not s: continue` for s = line.strip()
NotBlank(line) == Strip(line, Whitespace) # <<>>

\* list(dict.fromkeys(l)): the first occurrence of each element, in order
FromKeys(l) ==
    LET firsts == {i \in 1..Len(l) : \A j \in 1..(i - 1) : l[j] # l[i]}
    IN  [k \in 1..Cardinality(firsts) |->
            l[CHOOSE i \in firsts : Cardinality({j \in firsts : j < i}) = k - 1]]

\* sorted(l) for a list of distinct str
Sorted(l) ==
    [k \in 1..Len(l) |->
        l[CHOOSE i \in 1..Len(l) :
              Cardinality({j \in 1..Len(l) : LexLt(l[j], l[i])}) = k - 1]]

\* read_symbols_from_files, read_symbols_for_hyper: fs are the files named
read_symbols_from_files(fs) ==
    LET lines == SelectSeq(ReadLines(fs), NotBlank)
        read  == [i \in 1..Len(lines) |->
                     Strip(Strip(lines[i], Whitespace), BackticksAndSpaces)]
    IN  Sorted(FromKeys(read))

\* sanitize_filename
sanitize_filename(name) ==
    [i \in 1..Len(name) |->
        IF IsAlnum(name[i]) \/ name[i] \in {"-", "_"} THEN name[i] ELSE "_"]

NoRequest == [startTime |-> MsZero, endTime |-> MsZero]

\* the elements of a set of positions, ascending
Ascending(S) ==
    [k \in 1..Cardinality(S) |-> CHOOSE x \in S : Cardinality({y \in S : y < x}) = k - 1]

FullPages(exch) == IF exch = "binance" THEN BinanceFullPages ELSE BybitFullPages

ShortPages(exch) == IF exch = "binance" THEN {0, 1, 40} ELSE {0, 1, 5}

Servers(exch) ==
    IF exch = "hyperliquid"
    THEN {[k \in 1..Cardinality(S) |-> TimeOf(exch, Ascending(S)[k])] :
            S \in SUBSET (0..(HyperPositions - 1))}
    ELSE {[i \in 1..(k * Limit(exch) + m) |-> TimeOf(exch, i - 1)] :
            k \in 0..FullPages(exch), m \in ShortPages(exch)}

\* the windows <<start_ms, end_ms>> main may pass.  Binance, Bybit: all the
\* records; all but the first, to beyond the last; all but the last.
\* Hyperliquid: from Epoch to Epoch, to the first millisecond of the second
\* 30-day window, or to the last position
Windows(exch, srv) ==
    IF exch = "hyperliquid"
    THEN {<<Epoch, TimeOf(exch, p)>> : p \in {1, 4, HyperPositions - 1}}
    ELSE LET last == IF srv = <<>> THEN Epoch ELSE Last(srv)
         IN  {<<Epoch, last>>, <<MsSucc(Epoch), MsSucc(last)>>, <<MsPred(Epoch), MsPred(last)>>}

\* the servers of the runs for several symbols: no record, or one
SmallServers(exch) == {<<>>, <<TimeOf(exch, 1)>>}

\* the files each script's reader looks for
FileNames(exch) ==
    CASE exch = "binance" -> <<"binance_bybit_200_usdt.txt", "binance_200_usdc.txt">>
      [] exch = "bybit"   -> <<"binance_bybit_200_usdt.txt", "bybit_200_usdc.txt">>
      [] OTHER            -> <<"hyperliquid_200_usdc.txt">>

\* the fetch of a symbol starts
FetchStarts ==
    /\ cursor = IF exchange = "bybit" THEN end_ms ELSE start_ms
    /\ results = <<>>
    /\ sent = 0
    /\ request = NoRequest
    /\ response = NoResponse
    /\ full = 0
    /\ faults = 0

\* main has read the one symbol of its list and calls the fetcher for it
Init ==
    /\ exchange \in Exchanges
    /\ files = [i \in 1..Len(FileNames(exchange)) |->
                   IF i = 1 THEN File(<<Symbol>>) ELSE NoFile]
    /\ syms = <<Symbol>>
    /\ index = 1
    /\ all_rows = <<>>
    /\ only_binance = FALSE
    /\ syms_bybit = <<>>
    /\ server \in Servers(exchange)
    /\ \E w \in Windows(exchange, server) :
         /\ MsLe(w[1], w[2])
         /\ start_ms = w[1]
         /\ end_ms = w[2]
    /\ pc = "loop"
    /\ FetchStarts
    /\ csv = <<>>

\* len of the list of entries a response carries, -1 when it carries none
PageLen(exch, resp) ==
    LET lst == IF exch = "bybit" THEN BybitList(resp.body) ELSE resp.body
    IN  IF resp.ok /\ IsList(lst) THEN Len(lst.l) ELSE -1

\* the request req is sent, resp is received, and the loop body has run to o
Exchanged(req, resp, o) ==
    /\ sent' = sent + 1
    /\ request' = req
    /\ response' = resp
    /\ full' = IF exchange # "hyperliquid" /\ PageLen(exchange, resp) = Limit(exchange)
               THEN full + 1 ELSE full
    /\ faults' = IF resp.how = "honest" THEN faults ELSE faults + 1
    /\ cursor' = o.cursor
    /\ UNCHANGED <<exchange, server, start_ms, end_ms, csv, mainVars>>

\* fetch_binance_funding: one pass of `while True`
BinanceRequest ==
    /\ exchange = "binance" /\ pc = "loop"
    /\ \E resp \in Responses(exchange, server, cursor, end_ms, start_ms, end_ms,
                            MaxFaults - faults) :
         \E o \in {BinanceIteration(results, cursor, resp)} :
         /\ Exchanged([startTime |-> cursor, endTime |-> end_ms], resp, o)
         /\ results' = o.results
         /\ pc' = IF o.next = "break" THEN "returned" ELSE o.next

\* fetch_bybit_funding_v5: one pass of `while True`
BybitRequest ==
    /\ exchange = "bybit" /\ pc = "loop"
    /\ \E resp \in Responses(exchange, server, start_ms, cursor, start_ms, end_ms,
                            MaxFaults - faults) :
         \E o \in {BybitIteration(results, cursor, resp)} :
         /\ Exchanged([startTime |-> start_ms, endTime |-> cursor], resp, o)
         /\ results' = o.results
         /\ pc' = IF o.next = "break" THEN "returned" ELSE o.next

\* the end of fetch_hyper_funding_for_symbol, the loop left with results res:
\* `results = sorted({...}.values(), ...)` raises, or the fetcher returns it
HyperFinish(res) ==
    IF DedupRaises(res)
    THEN pc' = "raised" /\ results' = res
    ELSE pc' = "returned" /\ results' = DedupSort(res)

\* fetch_hyper_funding_for_symbol: one pass of `while cur_start <= end_ms`
HyperRequest ==
    /\ exchange = "hyperliquid" /\ pc = "loop"
    /\ MsLe(cursor, end_ms)
    /\ \E resp \in Responses(exchange, server, cursor, HyperWindowEnd(cursor, end_ms),
                            start_ms, end_ms, MaxFaults - faults) :
         \E o \in {HyperIteration(results, cursor, end_ms, resp)} :
         /\ Exchanged([startTime |-> cursor, endTime |-> HyperWindowEnd(cursor, end_ms)],
                      resp, o)
         /\ IF o.next = "break"
            THEN HyperFinish(o.results)
            ELSE pc' = o.next /\ results' = o.results

\* fetch_hyper_funding_for_symbol: `while cur_start <= end_ms` is false
HyperLoopExit ==
    /\ exchange = "hyperliquid" /\ pc = "loop"
    /\ ~MsLe(cursor, end_ms)
    /\ HyperFinish(results)
    /\ UNCHANGED <<exchange, server, start_ms, end_ms, cursor, sent, request,
                   response, full, faults, csv, mainVars>>

\* time.sleep(0.2) / time.sleep(0.5), then back to the top of the loop
Sleep ==
    /\ pc = "sleep"
    /\ pc' = "loop"
    /\ UNCHANGED <<exchange, server, start_ms, end_ms, cursor, results, sent, request,
                   response, full, faults, csv, mainVars>>

(***************************************************************************)
(* main.  It reads the symbols (MainStart) and calls the fetcher for each  *)
(* of them in turn; when a fetcher has returned, `if rows:` extends        *)
(* all_rows (Bybit: with rows[::-1]), and the next symbol is fetched       *)
(* (MainNextSymbol) or, after the last one, all_rows is grouped by symbol  *)
(* and one file is written per group (MainWrite).  A file is [path, rows]; *)
(* its path is the exchange's prefix and the sanitized symbol.             *)
(***************************************************************************)
FilePrefix(exch) ==
    CASE exch = "binance" -> "binance_funding_"
      [] exch = "bybit"   -> "bybit_funding_"
      [] OTHER            -> "hyper_funding_"

\* a main that extends all_rows with the rows as the fetcher returned them
CollectedAsReturned(exch, rows) == rows

\* what main adds to all_rows for the rows a fetcher returned
Collected(exch, rows) == IF exch = "bybit" THEN Reverse(rows) ELSE rows

\* a main that writes the first symbol's file only
GroupsFirstOnly(rows) == IF rows = <<>> THEN <<>> ELSE <<rows[1].symbol>>

\* the keys of by_sym: the symbols of rows, in the order of their first row
Groups(rows) ==
    LET firsts == {i \in 1..Len(rows) :
                     \A j \in 1..(i - 1) : rows[j].symbol # rows[i].symbol}
    IN  [k \in 1..Cardinality(firsts) |->
            rows[CHOOSE i \in firsts : Cardinality({j \in firsts : j < i}) = k - 1].symbol]

\* by_sym[sym]
OfSymbol(rows, sym) ==
    LET Mine(r) == r.symbol = sym
    IN  SelectSeq(rows, Mine)

\* the path main writes the rows of sym to
PathOf(exch, sym) == <<FilePrefix(exch), sanitize_filename(sym)>>

\* the files main writes for rows, in the order it writes them
Written(exch, rows) ==
    UNION {{[k \in 1..Len(groups) |->
                [path |-> PathOf(exch, groups[k]), rows |-> OfSymbol(rows, groups[k])]]} :
             groups \in {Groups(rows)}}

\* main until its first call of the fetcher; `if not syms: return`
MainStart ==
    /\ pc = "start"
    /\ syms' = read_symbols_from_files(files)
    /\ IF syms' = <<>>
       THEN pc' = "done" /\ index' = 0
       ELSE pc' = "loop" /\ index' = 1
    /\ UNCHANGED <<only_binance, syms_bybit, exchange, files, all_rows, server, start_ms, end_ms, cursor,
                   results, sent, request, response, full, faults, csv>>

\* main, from the return of a fetcher to the call for the next symbol
MainNextSymbol ==
    /\ pc = "returned" /\ index < Len(syms)
    /\ all_rows' = all_rows \o Collected(exchange, results)
    /\ index' = index + 1
    /\ server' \in SmallServers(exchange)
    /\ UNCHANGED <<only_binance, syms_bybit, exchange, files, syms, start_ms, end_ms, csv>>
    /\ pc' = "loop"
    /\ cursor' = IF exchange = "bybit" THEN end_ms ELSE start_ms
    /\ results' = <<>>
    /\ sent' = 0
    /\ request' = NoRequest
    /\ response' = NoResponse
    /\ full' = 0
    /\ faults' = 0

\* main, from the return of the fetcher for the last symbol to its end
MainWrite ==
    /\ pc = "returned" /\ index = Len(syms)
    /\ pc' = "done"
    /\ all_rows' = all_rows \o Collected(exchange, results)
    /\ csv' \in Written(exchange, all_rows')
    /\ UNCHANGED <<only_binance, syms_bybit, exchange, files, syms, index, server, start_ms, end_ms, cursor,
                   results, sent, request, response, full, faults>>

Next ==
    \/ BinanceRequest
    \/ BybitRequest
    \/ HyperRequest
    \/ HyperLoopExit
    \/ Sleep
    \/ MainWrite

Spec == Init /\ [][Next]_vars

\* the runs against a server that never fails and answers every request with
\* the honest page: it holds records with distinct times, honours startTime,
\* endTime and the page limit, and sends each page in its documented order
HonestNext ==
    \/ BinanceRequest /\ faults' = 0
    \/ BybitRequest /\ faults' = 0
    \/ HyperRequest /\ faults' = 0
    \/ HyperLoopExit
    \/ Sleep
    \/ MainWrite

HonestSpec == Init /\ [][HonestNext]_vars

\* the script runs on: it is sequential and every blocking call is bounded
\* (the requests by their timeout, the sleeps by their length), so a step
\* that can be taken is taken
FairSpec == Spec /\ WF_vars(Next)

(***************************************************************************)
(* The runs of main for a list of several symbols, from its start, against *)
(* servers that hold at most one record per symbol.                        *)
(***************************************************************************)
\* the lines of the symbol-list file: two symbols that differ in a
\* character sanitize_filename replaces (given out of order, one twice),
\* two plain symbols, or no line at all
SymbolLists ==
    {<<<<"A", "_", "B">>, <<"A", "/", "B">>, <<"A", "_", "B">>>>,
     <<<<"B">>, <<"A">>>>,
     <<>>}

MainInit ==
    /\ exchange \in Exchanges
    /\ \E lines \in SymbolLists :
         files = [i \in 1..Len(FileNames(exchange)) |->
                    IF i = 1 THEN File(lines) ELSE NoFile]
    /\ syms = <<>>
    /\ index = 0
    /\ all_rows = <<>>
    /\ only_binance = FALSE
    /\ syms_bybit = <<>>
    /\ server \in SmallServers(exchange)
    /\ start_ms = Epoch
    /\ end_ms = TimeOf(exchange, 1)
    /\ pc = "start"
    /\ FetchStarts
    /\ csv = <<>>

MainNext ==
    \/ MainStart
    \/ MainNextSymbol
    \/ Next

MainSpec == MainInit /\ [][MainNext]_vars

(***************************************************************************)
(* The symbol readers applied to files of up to MaxLines lines of up to    *)
(* MaxLineLen characters: letters, spaces, tabs and backticks.             *)
(***************************************************************************)
MaxLineLen == 3

MaxLines == 2

FileChars == {"A", "B", " ", Tab, Backtick}

Lines == UNION {[1..n -> FileChars] : n \in 0..MaxLineLen}

Contents == UNION {[1..n -> Lines] : n \in 0..MaxLines}

\* the first file named is missing or holds any contents, the second one
\* is missing or holds one symbol
ReaderInit ==
    /\ exchange \in Exchanges
    /\ \E first \in {NoFile} \cup {File(c) : c \in Contents},
          second \in {NoFile, File(<<<<"A">>>>)} :
         files = [i \in 1..Len(FileNames(exchange)) |-> IF i = 1 THEN first ELSE second]
    /\ syms = <<>>
    /\ index = 0
    /\ all_rows = <<>>
    /\ only_binance = FALSE
    /\ syms_bybit = <<>>
    /\ server = <<>>
    /\ start_ms = Epoch
    /\ end_ms = Epoch
    /\ pc = "start"
    /\ FetchStarts
    /\ csv = <<>>

ReaderSpec == ReaderInit /\ [][MainStart]_vars

(***************************************************************************)
(* main of fetch_funding_rates.py.  It reads the symbols of Binance and of *)
(* Bybit, returns if both lists are empty, fetches every Binance symbol,   *)
(* then, unless --only-binance is given, every Bybit symbol, and writes    *)
(* one file per (exchange, symbol) of the rows collected.  files is        *)
(* <<binance_bybit_200_usdt.txt, binance_200_usdc.txt, bybit_200_usdc.txt>>*)
(* and all_rows is binance_rows followed by bybit_rows.                    *)
(***************************************************************************)
\* the files read_symbols_for_binance and read_symbols_for_bybit name
BinanceFiles(fs) == <<fs[1], fs[2]>>

BybitFiles(fs) == <<fs[1], fs[3]>>

\* a main that fetches Bybit whatever the flag
BybitWantedAlways(only) == TRUE

\* `if not args.only_binance:`
BybitWanted(only) == ~only

\* the keys of grouped: the (exchange, symbol) of rows, in the order of
\* their first row
GroupKeys(rows) ==
    LET Key(r) == <<r.exchange, r.symbol>>
        firsts == {i \in 1..Len(rows) :
                     \A j \in 1..(i - 1) : Key(rows[j]) # Key(rows[i])}
    IN  [k \in 1..Cardinality(firsts) |->
            Key(rows[CHOOSE i \in firsts : Cardinality({j \in firsts : j < i}) = k - 1])]

\* all_rows = list(binance_rows), extended with bybit_rows unless
\* --only-binance is given
RowsToWrite(rows, only) ==
    LET Kept(r) == r.exchange = "binance" \/ BybitWanted(only)
    IN  SelectSeq(rows, Kept)

\* the files main writes for rows, in the order it writes them
WrittenGrouped(rows) ==
    UNION {{[k \in 1..Len(keys) |->
                [path |-> PathOf(keys[k][1], keys[k][2]),
                 rows |-> LET Mine(r) == <<r.exchange, r.symbol>> = keys[k]
                          IN  SelectSeq(rows, Mine)]]} :
             keys \in {GroupKeys(rows)}}

\* the servers of these runs: no record, one, or for Bybit one full page
RatesServers(exch) ==
    SmallServers(exch)
    \cup (IF exch = "bybit" THEN {[i \in 1..BybitLimit |-> TimeOf(exch, i - 1)]} ELSE {})

\* main calls the fetcher of exch
StartFetch(exch) ==
    /\ exchange' = exch
    /\ server' \in RatesServers(exch)
    /\ pc' = "loop"
    /\ cursor' = IF exch = "bybit" THEN end_ms ELSE start_ms
    /\ results' = <<>>
    /\ sent' = 0
    /\ request' = NoRequest
    /\ response' = NoResponse
    /\ full' = 0
    /\ faults' = 0

\* main until its loops; `if not syms_binance and not syms_bybit: return`
RatesStart ==
    /\ pc = "start"
    /\ syms' = read_symbols_from_files(BinanceFiles(files))
    /\ syms_bybit' = read_symbols_from_files(BybitFiles(files))
    /\ pc' = IF syms' = <<>> /\ syms_bybit' = <<>> THEN "done" ELSE "main"
    /\ UNCHANGED <<exchange, files, index, all_rows, server, start_ms, end_ms, cursor,
                   results, sent, request, response, full, faults, csv, only_binance>>

\* main is not inside a fetcher, and the list it goes through has a symbol
\* left (more) or none
BetweenFetches(more) ==
    /\ pc \in {"main", "returned"}
    /\ more <=> index < Len(syms)
    /\ all_rows' = all_rows \o Collected(exchange, results)

\* the next pass of `for symbol in syms_binance` or `for symbol in syms_bybit`
RatesNextSymbol ==
    /\ BetweenFetches(TRUE)
    /\ index' = index + 1
    /\ StartFetch(exchange)
    /\ UNCHANGED <<files, syms, start_ms, end_ms, csv, only_binance, syms_bybit>>

\* the Binance loop is over and the first pass of the Bybit loop starts
RatesTurnToBybit ==
    /\ BetweenFetches(FALSE)
    /\ exchange = "binance" /\ BybitWanted(only_binance) /\ syms_bybit # <<>>
    /\ syms' = syms_bybit
    /\ index' = 1
    /\ StartFetch("bybit")
    /\ UNCHANGED <<files, start_ms, end_ms, csv, only_binance, syms_bybit>>

\* the loops are over: main groups the rows and writes the files
RatesWrite ==
    /\ BetweenFetches(FALSE)
    /\ exchange = "bybit" \/ ~BybitWanted(only_binance) \/ syms_bybit = <<>>
    /\ pc' = "done"
    /\ csv' \in WrittenGrouped(RowsToWrite(all_rows', only_binance))
    /\ UNCHANGED <<exchange, files, syms, index, server, start_ms, end_ms, cursor,
                   results, sent, request, response, full, faults, only_binance,
                   syms_bybit>>

\* the symbol-list files of these runs: none; one of the three, holding one
\* symbol; or the two Binance reads
RatesFiles ==
    LET usdt         == File(<<<<"A">>>>)
        binance_usdc == File(<<<<"B">>>>)
        bybit_usdc   == File(<<<<"C">>>>)
    IN  {<<NoFile, NoFile, NoFile>>, <<usdt, NoFile, NoFile>>,
         <<NoFile, binance_usdc, NoFile>>, <<NoFile, NoFile, bybit_usdc>>,
         <<usdt, binance_usdc, NoFile>>}

\* --only-binance is given or not
RatesInit ==
    /\ exchange = "binance"
    /\ files \in RatesFiles
    /\ syms = <<>>
    /\ index = 0
    /\ all_rows = <<>>
    /\ only_binance \in BOOLEAN
    /\ syms_bybit = <<>>
    /\ server = <<>>
    /\ start_ms = Epoch
    /\ end_ms = TimeOf("bybit", BybitLimit - 1)
    /\ pc = "start"
    /\ FetchStarts
    /\ csv = <<>>

RatesNext ==
    \/ RatesStart
    \/ RatesNextSymbol
    \/ RatesTurnToBybit
    \/ RatesWrite
    \/ BinanceRequest
    \/ BybitRequest
    \/ Sleep

RatesSpec == RatesInit /\ [][RatesNext]_vars

(***************************************************************************)
(* Properties.                                                             *)
(***************************************************************************)
StrictlyAscending(rows) ==
    \A i \in 1..(Len(rows) - 1) :
        MsLt(rows[i].funding_time_ms, rows[i + 1].funding_time_ms)

StrictlyDescending(rows) ==
    \A i \in 1..(Len(rows) - 1) :
        MsLt(rows[i + 1].funding_time_ms, rows[i].funding_time_ms)

\* the set of the elements of a sequence
Elements(s) == {s[i] : i \in 1..Len(s)}

\* every response of the fetch so far was the honest page of a server that
\* holds records with distinct times, honours startTime, endTime and the
\* page limit, and sends each page in its documented order
HonestSoFar == faults = 0

\* C1: completeness.  When every response was the honest page, the fetcher
\* returns exactly the server's records with a time in [start_ms, end_ms]:
\* none missing, none added, none repeated.
Completeness ==
    (pc = "returned" /\ HonestSoFar) =>
        LET want == Held(server, start_ms, end_ms)
        IN  /\ Len(results) = Len(want)
            /\ Elements(results) =
                   {Row(exchange, want[i], HonestRate) : i \in 1..Len(want)}

\* a fetch of several requests has returned some, not all, of the records
\* the server holds
CompletenessWitness ==
    /\ pc = "returned" /\ HonestSoFar
    /\ sent > 1
    /\ Len(results) > 0 /\ Len(results) < Len(server)

\* C2: when every response was the honest page, the rows of every file
\* written are strictly ascending by funding_time_ms: sorted, and no two
\* rows of a file share a funding_time_ms.
FilesAscending ==
    HonestSoFar => \A f \in 1..Len(csv) : StrictlyAscending(csv[f].rows)

\* a file of several rows, fetched with several requests, has been written
FilesAscendingWitness ==
    /\ pc = "done" /\ HonestSoFar
    /\ sent > 1
    /\ Len(csv) = 1 /\ Len(csv[1].rows) > 1

AscendingRows(rows) ==
    \A i \in 1..(Len(rows) - 1) :
        MsLe(rows[i].funding_time_ms, rows[i + 1].funding_time_ms)

\* C3 as stated: the sequence each fetcher returns is ascending by
\* funding_time_ms, that of fetch_bybit_funding_v5 included.
ReturnedAscending ==
    (pc = "returned" /\ HonestSoFar) => AscendingRows(results)

\* C3, amended: when every response was the honest page,
\* fetch_binance_funding and fetch_hyper_funding_for_symbol return their rows
\* strictly ascending by funding_time_ms, fetch_bybit_funding_v5 returns its
\* rows strictly descending, as accumulated, and the file main writes holds
\* the returned rows, each once, strictly ascending.
ReturnOrder ==
    /\ (pc = "returned" /\ HonestSoFar) =>
           IF exchange = "bybit"
           THEN StrictlyDescending(results)
           ELSE StrictlyAscending(results)
    /\ (pc = "done" /\ HonestSoFar /\ results # <<>>) =>
           /\ Len(csv) = 1
           /\ Len(csv[1].rows) = Len(results)
           /\ Elements(csv[1].rows) = Elements(results)
           /\ StrictlyAscending(csv[1].rows)

\* main has written the rows that fetch_bybit_funding_v5 returned newest first
ReturnOrderWitness ==
    /\ pc = "done" /\ HonestSoFar /\ exchange = "bybit"
    /\ Len(results) > 1
    /\ MsLt(Last(results).funding_time_ms, results[1].funding_time_ms)
    /\ Len(csv) = 1 /\ csv[1].rows[1] = Last(results)

\* C4: when the Binance server answers with k full pages of 1000 records and
\* then a page of m records, 1 <= m < 1000, the fetcher has stopped with that
\* page after exactly k + 1 requests, and returns all 1000 * k + m records,
\* strictly ascending.
BinancePageCount ==
    (/\ exchange = "binance" /\ HonestSoFar
     /\ PageLen(exchange, response) \in 1..(BinanceLimit - 1)) =>
        /\ pc \in {"returned", "done"}
        /\ sent = full + 1
        /\ Len(results) = BinanceLimit * full + PageLen(exchange, response)
        /\ StrictlyAscending(results)

\* k = 1, m = 40: 2 requests, 1040 records
BinancePageCountWitness ==
    /\ exchange = "binance" /\ HonestSoFar /\ pc = "returned"
    /\ full = 1 /\ PageLen(exchange, response) = 40
    /\ sent = 2 /\ Len(results) = 1040

\* the rows persisted for the symbol
Persisted == IF csv = <<>> THEN <<>> ELSE csv[1].rows

\* C5: the Bybit server answers with k full pages of 200 records, each page
\* newest first and older than the page before, and then a page of m < 200
\* records; the Bybit path has then sent exactly k + 1 requests, and the rows
\* persisted for the symbol are all 200 * k + m records, strictly ascending.
BybitPageCount ==
    (exchange = "bybit" /\ pc = "done" /\ HonestSoFar) =>
        /\ PageLen(exchange, response) \in 0..(BybitLimit - 1)
        /\ sent = full + 1
        /\ Len(csv) <= 1
        /\ Len(Persisted) = BybitLimit * full + PageLen(exchange, response)
        /\ StrictlyAscending(Persisted)

\* k = 3, m = 5: 4 requests, 605 records persisted
BybitPageCountWitness ==
    /\ exchange = "bybit" /\ pc = "done" /\ HonestSoFar
    /\ full = 3 /\ PageLen(exchange, response) = 5
    /\ sent = 4 /\ Len(Persisted) = 605

\* a request is sent and answered in this step, and the response is
\* delivered but holds an empty list of entries, or no list of entries
AnsweredWithoutEntries ==
    /\ sent' = sent + 1
    /\ response'.ok
    /\ PageLen(exchange, response') <= 0

\* the fetch is over: no request follows
NoRequestOnceOver == pc \in {"returned", "raised", "done"} => sent' = sent

\* C6 as stated: in all three fetchers a response with an empty list, or
\* with no list of entries, ends the pagination: the fetcher returns, without
\* raising, the records accumulated before.
EmptyPageEnds ==
    [][(sent > 0 /\ response.ok /\ PageLen(exchange, response) <= 0) =>
           /\ sent' = sent
           /\ pc' # "raised"
           /\ Elements(results') = Elements(results)]_vars

\* C6, amended: a response with an empty list, or with no list of entries,
\* adds no record.  It ends the pagination of fetch_binance_funding and
\* fetch_bybit_funding_v5, which return the records accumulated before.
\* fetch_hyper_funding_for_symbol goes on to the next 30-day window when the
\* body is an empty list or another value with a length (cur_start =
\* cur_end + 1, then time.sleep), and leaves its loop when the body has no
\* length.  No request follows the end of a fetch.
EmptyPageStep ==
    [][/\ AnsweredWithoutEntries =>
            IF exchange # "hyperliquid"
            THEN pc' = "returned" /\ results' = results
            ELSE IF Sized(response'.body)
                 THEN /\ pc' = "sleep"
                      /\ results' = results
                      /\ cursor' = MsSucc(request'.endTime)
                 ELSE /\ pc' \in {"returned", "raised"}
                      /\ Elements(results') = Elements(results)
       /\ NoRequestOnceOver]_vars

\* fetch_hyper_funding_for_symbol, with records accumulated, has received an
\* empty window and moves on
EmptyPageStepWitness ==
    /\ exchange = "hyperliquid" /\ pc = "sleep"
    /\ sent > 1 /\ results # <<>>
    /\ response.ok /\ PageLen(exchange, response) = 0
    /\ cursor = MsSucc(request.endTime)

\* C7 as stated: when a request fails (timeout, HTTP error status, a body
\* that is not JSON), the fetcher sends no further request and returns
\* exactly the records accumulated from the pages before.
FailureKeepsRecords ==
    [][/\ (sent' = sent + 1 /\ ~response'.ok) =>
            pc' = "returned" /\ Elements(results') = Elements(results)
       /\ (sent > 0 /\ ~response.ok) => sent' = sent]_vars

\* C8 as stated: no fetcher ever raises to its caller.
NeverRaises == pc # "raised"

\* the entries of a page response
Entries(exch, resp) == (IF exch = "bybit" THEN BybitList(resp.body) ELSE resp.body).l

\* a request is sent in this step and answered with a page of entries
AnsweredWithEntries ==
    /\ sent' = sent + 1
    /\ response'.ok
    /\ PageLen(exchange, response') > 0

\* 10^12
MsThreshold == Ms(Limb, 0)

\* t * 1000 for t < 10^12, t for t >= 10^12
InMilliseconds(t) == IF MsLt(t, MsThreshold) THEN MsTimes(t, 1000) ELSE t

\* when the step stores a row for every entry of the page it receives, the
\* row of each entry whose timestamp field holds an integer t other than 0
\* has funding_time_ms = InMilliseconds(t) (normalizing), or t (not
\* normalizing)
StoresTimeAs(normalizing) ==
    LET items == Entries(exchange, response')
        Stored(t) == IF normalizing THEN InMilliseconds(t) ELSE t
    IN
    (AnsweredWithEntries /\ Len(results') = Len(results) + Len(items)) =>
        \A i \in 1..Len(items) :
            LET raw == IF IsDict(items[i]) THEN Get(items[i], TimeKey(exchange)) ELSE None
            IN  (IntOk(raw) /\ Truthy(raw)) =>
                    results'[Len(results) + i].funding_time_ms = Stored(IntOf(raw))

\* C9 as stated: in every exchange variant an integer raw timestamp
\* t < 10^12 is stored as funding_time_ms = t * 1000, and t >= 10^12 is stored
\* unchanged.
TimestampNormalized == [][StoresTimeAs(TRUE)]_vars

\* C9, amended: in the records they store, fetch_bybit_funding_v5 and
\* fetch_hyper_funding_for_symbol keep an integer raw timestamp t < 10^12
\* (other than 0) as funding_time_ms = t * 1000 and t >= 10^12 unchanged;
\* fetch_binance_funding keeps int(fundingTime) unchanged whatever its size.
TimestampStored ==
    [][StoresTimeAs(exchange # "binance")]_vars

\* fetch_bybit_funding_v5 has stored a timestamp it received in seconds
TimestampStoredWitness ==
    /\ exchange = "bybit" /\ response.ok /\ PageLen(exchange, response) > 0
    /\ results # <<>>
    /\ LET raw == Get(Last(Entries(exchange, response)), TimeKey(exchange))
       IN  /\ IntOk(raw)
           /\ MsLt(MsZero, IntOf(raw)) /\ MsLt(IntOf(raw), MsThreshold)
           /\ Last(results).funding_time_ms = MsTimes(IntOf(raw), 1000)

\* the fields a fetcher may read an entry's timestamp from
TimeFields ==
    {"fundingTime", "fundingRateTimestamp", "funding_time", "timestamp", "time", "t"}

\* the entry has no timestamp, or none that parses
UnusableTime(item) ==
    /\ IsDict(item)
    /\ \A k \in TimeFields : ~IntOk(Get(item, k)) /\ ~IsoOk(Get(item, k))

UsableTime(item) == ~UnusableTime(item)

\* C10 as stated: an entry whose timestamp is missing or cannot be parsed is
\* dropped on its own: the other entries of its page are appended, and the
\* pagination goes on as the page's length tells it to.
DropsEntryAlone ==
    [][LET items == Entries(exchange, response') IN
       (AnsweredWithEntries /\ \E i \in 1..Len(items) : UnusableTime(items[i])) =>
           /\ Len(results') = Len(results) + Len(SelectSeq(items, UsableTime))
           /\ (exchange = "hyperliquid" \/ Len(items) = Limit(exchange)) =>
                  pc' = "sleep"]_vars

\* the entry's timestamp field holds a valid ISO-8601 string
IsoEntry(item) == IsDict(item) /\ IsoOk(Get(item, TimeKey(exchange)))

\* C11 as stated: in every fetcher an entry whose timestamp is a valid
\* ISO-8601 string is kept: a record with funding_time_ms equal to the
\* instant the string denotes is appended for it, and the fetch is not
\* aborted (it goes on after a Hyperliquid page or a full page).
IsoTimestampKept ==
    [][LET items == Entries(exchange, response') IN
       (AnsweredWithEntries /\ \E i \in 1..Len(items) : IsoEntry(items[i])) =>
           /\ \A i \in 1..Len(items) :
                  IsoEntry(items[i]) =>
                      \E k \in (Len(results) + 1)..Len(results') :
                          results'[k].funding_time_ms =
                              IsoToMs(Get(items[i], TimeKey(exchange)))
           /\ (exchange = "hyperliquid" \/ Len(items) = Limit(exchange)) =>
                  pc' = "sleep"]_vars

\* the candidate fields of the funding rate and of the timestamp, in the
\* order each fetcher probes them
RateFields(exch) ==
    CASE exch = "binance" -> <<"fundingRate">>
      [] exch = "bybit"   -> <<"fundingRate", "funding_rate", "funding">>
      [] OTHER            -> <<"fundingRate", "funding_rate", "rate", "funding">>

ProbedTimeFields(exch) ==
    CASE exch = "binance" -> <<"fundingTime">>
      [] exch = "bybit"   -> <<"fundingRateTimestamp", "funding_time", "timestamp", "time">>
      [] OTHER            -> <<"time", "timestamp", "t">>

\* the value of the first field of keys that item holds and that is not
\* null, None when there is none
FirstPresent(item, keys) ==
    LET present == {i \in 1..Len(keys) : Get(item, keys[i]) # None}
    IN  IF present = {} THEN None
        ELSE Get(item, keys[CHOOSE i \in present : \A j \in present : i <= j])

\* C12 as stated: the funding_rate and the timestamp of the record emitted
\* for an entry are the value of the first candidate field, in probing order,
\* that is present and not null, whatever that value is (0 and "" included);
\* funding_rate is stored as supplied.  Stated of the steps that store a
\* record for every entry of the page.
FirstNonNullWins ==
    [][LET items == Entries(exchange, response') IN
       (AnsweredWithEntries /\ Len(results') = Len(results) + Len(items)) =>
           \A i \in 1..Len(items) :
               LET row == results'[Len(results) + i]
                   fr == FirstPresent(items[i], RateFields(exchange))
                   ft == FirstPresent(items[i], ProbedTimeFields(exchange))
               IN  /\ row.funding_rate = fr
                   /\ IntOk(ft) =>
                          row.funding_time_ms \in {IntOf(ft), InMilliseconds(IntOf(ft))}
                   /\ IsoOk(ft) => row.funding_time_ms = IsoToMs(ft)]_vars

\* the cursor that lies one millisecond past the time ms, in the direction
\* the fetcher of exch pages in
PastTime(exch, ms) == IF exch = "bybit" THEN MsPred(ms) ELSE MsSucc(ms)

\* C17 as stated: after a full page (Hyperliquid: a page with entries) whose
\* entries were all stored, the last one with an integer timestamp in any
\* field and unit its fetcher's normalization accepts, the fetch goes on and
\* the cursor of the next request is the last record's funding_time_ms plus
\* 1 ms (Binance, Hyperliquid) or minus 1 ms (Bybit).
CursorPastLastRecord ==
    [][LET items == Entries(exchange, response') IN
       (/\ AnsweredWithEntries
        /\ exchange = "hyperliquid" \/ Len(items) = Limit(exchange)
        /\ Len(results') = Len(results) + Len(items)
        /\ IntOk(FirstPresent(Last(items), ProbedTimeFields(exchange)))) =>
           /\ pc' = "sleep"
           /\ cursor' = PastTime(exchange, Last(results').funding_time_ms)]_vars

\* the request req of a Hyperliquid fetch lies within [start_ms, end_ms] and
\* spans less than 30 days
WithinWindow(req) ==
    /\ MsLe(start_ms, req.startTime)
    /\ MsLe(req.startTime, req.endTime)
    /\ MsLe(req.endTime, end_ms)
    /\ MsLt(req.endTime, MsAdd(req.startTime, WindowMs))

\* the time the Hyperliquid cursor is computed from: that of the last entry
HyperLastTime(resp) ==
    LET last == Last(resp.body.l)
    IN  IF IsDict(last)
        THEN PyOr(PyOr(Get(last, "time"), Get(last, "timestamp")), Get(last, "t"))
        ELSE None

\* the response to req carries no entries, or its last entry carries a time
\* in milliseconds that lies within the range req asked for
EndsInRange(req, resp) ==
    /\ resp.ok
    /\ PageLen("hyperliquid", resp) > 0 =>
           /\ IntOk(HyperLastTime(resp))
           /\ MsLe(req.startTime, IntOf(HyperLastTime(resp)))
           /\ MsLe(IntOf(HyperLastTime(resp)), req.endTime)

\* C19 as stated: every request of fetch_hyper_funding_for_symbol has
\* start_ms <= startTime <= endTime <= end_ms and endTime - startTime < 30
\* days, and its startTime is strictly greater than that of the request
\* before it.
WindowsAdvance ==
    [][(exchange = "hyperliquid" /\ sent' = sent + 1) =>
           /\ WithinWindow(request')
           /\ sent > 0 => MsLt(request.startTime, request'.startTime)]_vars

\* C19, amended: the first request of fetch_hyper_funding_for_symbol lies
\* within [start_ms, end_ms] and spans less than 30 days; and so does every
\* request that follows a request that does and whose response ended in
\* range, and its startTime is strictly greater than that request's.
WindowsAdvanceInRange ==
    [][(exchange = "hyperliquid" /\ sent' = sent + 1) =>
           IF sent = 0 THEN WithinWindow(request')
           ELSE (WithinWindow(request) /\ EndsInRange(request, response)) =>
                    /\ WithinWindow(request')
                    /\ MsLt(request.startTime, request'.startTime)]_vars

\* a request that follows a page with entries: it starts past the last entry
\* received and is cut at end_ms
WindowsAdvanceWitness ==
    /\ exchange = "hyperliquid" /\ sent > 1
    /\ results # <<>>
    /\ WithinWindow(request)
    /\ request.startTime = MsSucc(Last(results).funding_time_ms)
    /\ request.endTime = end_ms
    /\ response.how = "honest"

\* the (funding_time_ms, funding_rate) pairs of rows
Pairs(rows) == {DedupKey(rows[i]) : i \in 1..Len(rows)}

\* the results list as the loop of the Hyperliquid fetcher leaves it in this
\* step: with the rows of the page received in this step, if any
Accumulated ==
    IF sent' = sent + 1 /\ PageLen(exchange, response') > 0
    THEN results \o Appended(Outcomes(exchange, Entries(exchange, response')))
    ELSE results

\* C20: the list fetch_hyper_funding_for_symbol returns is sorted ascending
\* by funding_time_ms, holds no (funding_time_ms, funding_rate) pair twice,
\* and holds every pair the loop accumulated.
DedupKeepsPairs ==
    [][(exchange = "hyperliquid" /\ pc = "loop" /\ pc' = "returned") =>
           /\ AscendingRows(results')
           /\ \A i, k \in 1..Len(results') :
                  DedupKey(results'[i]) = DedupKey(results'[k]) => i = k
           /\ Pairs(results') = Pairs(Accumulated)]_vars

\* the fetcher has returned after a second request that was answered with
\* the page of the first one again: the loop had accumulated the first
\* entry twice, the list returned holds each entry of that page once
DedupKeepsPairsWitness ==
    /\ exchange = "hyperliquid" /\ pc = "returned"
    /\ sent = 2 /\ response.how = "replay"
    /\ PageLen(exchange, response) > 1
    /\ request.startTime = MsSucc(IntOf(HyperLastTime([body |-> PyList(<<Entries(exchange, response)[1]>>)])))
    /\ Len(results) = PageLen(exchange, response)

\* every integer timestamp the entries of resp carry, in any timestamp
\* field, lies within the range req asked for
InRequestedRange(req, resp) ==
    (resp.ok /\ PageLen(exchange, resp) > 0) =>
        \A i \in 1..PageLen(exchange, resp) :
            LET item == Entries(exchange, resp)[i] IN
            IsDict(item) =>
                \A k \in TimeFields :
                    IntOk(Get(item, k)) =>
                        /\ MsLe(req.startTime, IntOf(Get(item, k)))
                        /\ MsLe(IntOf(Get(item, k)), req.endTime)

\* the fetcher's loop is over
Stopped == pc \in {"returned", "raised", "done"}

\* C18: against a server that only returns entries whose timestamp lies
\* inside the requested [startTime, endTime], after every request that does
\* not end the loop the cursor has strictly moved in its direction of travel
\* (down for Bybit, up for the others), and the loop stops.
Terminates ==
    /\ [][(sent' = sent + 1 /\ pc' = "sleep" /\ InRequestedRange(request', response')) =>
              IF exchange = "bybit" THEN MsLt(cursor', cursor)
              ELSE MsLt(cursor, cursor')]_vars
    /\ [](sent > 0 => InRequestedRange(request, response)) => <>Stopped

\* a loop that has stopped after several requests, every response in range
\* and the last one a page with entries
TerminatesWitness ==
    /\ Stopped /\ sent > 2
    /\ faults > 0
    /\ PageLen(exchange, response) > 0
    /\ InRequestedRange(request, response)

(***************************************************************************)
(* C13: the symbols read.                                                  *)
(***************************************************************************)
\* a line without its surrounding whitespace and backticks
Stripped(line) == Strip(line, Whitespace \cup {Backtick})

\* the sorted list, without duplicates, of the stripped lines of the files
\* that exist, blank lines left out
StrippedSymbols(fs) ==
    LET lines == SelectSeq(ReadLines(fs), NotBlank)
    IN  Sorted(FromKeys([i \in 1..Len(lines) |-> Stripped(lines[i])]))

\* C13: for any contents of the symbol-list files, the reader returns the
\* lexically sorted list, without duplicates, of the lines stripped of
\* their surrounding whitespace and backticks, blank lines ignored and
\* missing files skipped
SymbolsStripped == pc # "start" => syms = StrippedSymbols(files)

(***************************************************************************)
(* C14, C15, C16: the files main writes for a list of symbols.             *)
(***************************************************************************)
\* C14: in one run, two distinct symbols of one exchange that both have
\* records are never written to the same file path, also when they differ
\* only in characters that sanitize_filename replaces
OneFilePerSymbol ==
    \A k1, k2 \in 1..Len(csv) : csv[k1].path = csv[k2].path => k1 = k2

\* the process has ended: main has returned, or an exception has left it
Ended == pc \in {"done", "raised"}

\* C15: whatever the server does for a symbol, a fetch is started for every
\* later symbol of the list and the write step then runs: the process ends
\* only with the write step done, after the fetch of the last symbol
AttemptsEverySymbol == Ended => pc = "done" /\ index = Len(syms)

\* the fetch of the i-th symbol returned records
HasRecords(i) == \E j \in 1..Len(all_rows) : all_rows[j].symbol = syms[i]

\* a file was written at the i-th symbol's path with that symbol's rows
HasFile(i) ==
    \E k \in 1..Len(csv) :
        /\ csv[k].path = PathOf(exchange, syms[i])
        /\ csv[k].rows # <<>>
        /\ \A j \in 1..Len(csv[k].rows) : csv[k].rows[j].symbol = syms[i]

\* C16: once main has run to its end, every symbol that was fetched has an
\* output file, also a symbol whose fetch returned zero records
EverySymbolHasFile ==
    pc = "done" => \A i \in 1..Len(syms) :
                      \E k \in 1..Len(csv) : csv[k].path = PathOf(exchange, syms[i])

\* C16 as the code has it: once main has run to its end, a file of its rows
\* was written at a symbol's path exactly when its fetch returned records;
\* before that, and when an exception ends the process, no file is written
FilesOfSymbolsWithRecords ==
    /\ pc = "done" => \A i \in 1..Len(syms) : HasFile(i) <=> HasRecords(i)
    /\ pc # "done" => csv = <<>>

\* main has ended for two symbols, one with records and a file, the other
\* with neither
FilesOfSymbolsWithRecordsWitness ==
    /\ pc = "done" /\ Len(syms) = 2
    /\ \E i, j \in 1..2 : /\ HasRecords(i) /\ HasFile(i)
                          /\ ~HasRecords(j) /\ ~HasFile(j)

(***************************************************************************)
(* C21: the range of each request of the Binance and Bybit fetchers.       *)
(***************************************************************************)
\* the parameter of a request that stays as main passed it
FixedBoundary(exch, req) == IF exch = "bybit" THEN req.startTime ELSE req.endTime

PassedBoundary(exch) == IF exch = "bybit" THEN start_ms ELSE end_ms

\* C21: every request of the Binance and Bybit fetchers has
\* startTime <= endTime, also after a full page whose last entry lies on
\* the boundary of the fetch, and its fixed boundary parameter (endTime for
\* Binance, startTime for Bybit) is the one passed to the fetcher
RequestRangeSane ==
    exchange # "hyperliquid" /\ sent > 0 =>
        /\ MsLe(request.startTime, request.endTime)
        /\ FixedBoundary(exchange, request) = PassedBoundary(exchange)

(***************************************************************************)
(* C22: the sleep between the requests of a fetch.                         *)
(***************************************************************************)
\* C22: between two consecutive requests of a fetch there is a sleep step,
\* in every fetcher and on every path that loops: a request is sent from
\* the top of the loop only and leaves the fetcher elsewhere, and the
\* fetcher comes back to the top of its loop only by a sleep step, which
\* sends nothing
SleepBetweenRequests ==
    [][/\ sent' # sent => pc = "loop" /\ pc' # "loop"
       /\ pc # "loop" /\ pc' = "loop" => pc = "sleep" /\ sent' = sent]_vars

\* a second request was sent, after a sleep, and the fetcher sleeps again
SleepBetweenRequestsWitness == sent >= 2 /\ pc = "sleep"

(***************************************************************************)
(* C23: the symbols handed to the fetchers.                                *)
(***************************************************************************)
\* C23: for any contents of the symbol-list files, also lines made only of
\* backticks, the symbol readers never yield the empty string
NoEmptySymbol == \A i \in 1..Len(syms) : syms[i] # <<>>

(***************************************************************************)
(* C24: --only-binance and the empty symbol lists in fetch_funding_rates.  *)
(***************************************************************************)
\* the rows of exch among rows, and the files of exch among fs
RowsOf(exch, rows) ==
    LET Mine(r) == r.exchange = exch
    IN  SelectSeq(rows, Mine)

FilesOf(exch, fs) ==
    LET Mine(f) == f.path[1] = FilePrefix(exch)
    IN  SelectSeq(fs, Mine)

\* main has returned at `if not syms_binance and not syms_bybit`
ReturnedEarly == pc = "done" /\ syms = <<>> /\ syms_bybit = <<>>

\* C24: with --only-binance no Bybit request is sent and no bybit_funding_
\* file is written; with or without the flag the Binance loop ends only
\* after the fetch of the last Binance symbol and the Binance files are
\* those of the rows these fetches returned; and when both symbol lists
\* are empty main returns with no request sent and no file written
OnlyBinanceFrame ==
    /\ [](only_binance => /\ sent > 0 => exchange = "binance"
                          /\ FilesOf("bybit", csv) = <<>>)
    /\ [][exchange = "binance" /\ pc \in {"main", "returned"} /\ pc' # pc
            => \/ index' = index + 1 /\ exchange' = "binance" /\ pc' = "loop"
               \/ index = Len(read_symbols_from_files(BinanceFiles(files)))]_vars
    /\ [](pc = "done" /\ ~ReturnedEarly
            => {FilesOf("binance", csv)} = Written("binance", RowsOf("binance", all_rows)))
    /\ [](pc # "start" /\ read_symbols_from_files(BinanceFiles(files)) = <<>>
                       /\ read_symbols_from_files(BybitFiles(files)) = <<>>
            => ReturnedEarly /\ sent = 0 /\ csv = <<>>)

\* main has ended with --only-binance given, Bybit symbols listed and a
\* Binance file written
OnlyBinanceFrameWitness ==
    /\ only_binance /\ pc = "done"
    /\ syms_bybit # <<>>
    /\ FilesOf("binance", csv) # <<>>

=============================================================================
